---- MODULE Spec2Model ----
(***************************************************************************)
(* A model of the crafting-cost calculator of src/绿鬣蜥v1.0x.py:          *)
(* DataManager (catalog, price overrides, get_recipe_tree, round_quantity) *)
(* and MaterialTrackingPage (basket aggregation, channel classification,   *)
(* curve expansion and budget evaluation).                                 *)
(*                                                                         *)
(* Python floats are modelled as exact rationals <<n, d>> in lowest terms  *)
(* with d > 0, so that 1/2 of an Ore is a value different from 0 and 1.    *)
(* Python lists are tuples (index i of the source is index i+1 here) and   *)
(* Python dicts that are iterated in insertion order are sequences of      *)
(* <<key, value>> pairs. A raised exception is the record                  *)
(* [exc |-> <type>, arg |-> <name>].                                       *)
(***************************************************************************)
EXTENDS Integers, Sequences, FiniteSets, TLC

\* ------------------------------------------------------------------ bounds
\* Depth of nested get_recipe_tree / get_base_materials frames at which the
\* interpreter raises RecursionError (sys.getrecursionlimit(), scaled down).
RecursionLimit == 4
\* UpdateInfo resolves quantities 1..MaxQuantity.
MaxQuantity == 3
\* round_quantity is called on quantities below MaxWhole + 1.
MaxWhole == 5

\* --------------------------------------------------------------- rationals
RECURSIVE GCD(_, _)
GCD(a, b) == IF b = 0 THEN a ELSE GCD(b, a % b)

Abs(n) == IF n < 0 THEN -n ELSE n

\* <<n, d>> in lowest terms, d > 0
Norm(n, d) ==
    LET s == IF d < 0 THEN -1 ELSE 1
        g == GCD(Abs(n), Abs(d))
    IN  <<(s * n) \div g, (s * d) \div g>>

R(n) == <<n, 1>>
RAdd(x, y) == Norm(x[1] * y[2] + y[1] * x[2], x[2] * y[2])
RSub(x, y) == Norm(x[1] * y[2] - y[1] * x[2], x[2] * y[2])
RMul(x, y) == Norm(x[1] * y[1], x[2] * y[2])
\* x / y, y # 0
RDiv(x, y) == Norm(x[1] * y[2], x[2] * y[1])
RLt(x, y) == x[1] * y[2] < y[1] * x[2]
RLe(x, y) == x[1] * y[2] <= y[1] * x[2]
RAbs(x) == <<Abs(x[1]), x[2]>>
Floor(x) == x[1] \div x[2]
Ceil(x) == -((-x[1]) \div x[2])

\* Python's round(): to the nearest integer, an exact half to the even one
PyRound(x) ==
    LET f == Floor(x)
        twice == 2 * (x[1] - f * x[2])
    IN  IF twice < x[2] THEN f
        ELSE IF twice > x[2] THEN f + 1
        ELSE IF f % 2 = 0 THEN f ELSE f + 1

\* threshold=1e-4 of round_quantity, as 1/ThresholdDen
ThresholdDen == 10000

\* round_quantity gone wrong: always the ceiling
round_quantity_AlwaysCeil(quantity) == Ceil(quantity)

round_quantity(quantity) ==
    LET rounded == PyRound(quantity)
    IN  IF RLt(RAbs(RSub(quantity, R(rounded))), <<1, ThresholdDen>>)
        THEN rounded
        ELSE Ceil(quantity)

\* ----------------------------------------------------------------- catalog
\* price / ticket_price / camp_contribution / new_dollar: -1 is "unset"
Item(p, t, c, d) ==
    [price |-> p, ticket_price |-> t, camp_contribution |-> c, new_dollar |-> d]

Mat(n, q) == [name |-> n, quantity |-> q]

Recipe(ms, q) == [materials |-> ms, quantity |-> q]

\* data["items"] as loaded by load_data
InitItems ==
    [n \in {"Wood", "Ore", "Coal", "Fur", "Hide", "Hemp", "Flax", "Silk", "Bone"} |->
        CASE n = "Wood" -> Item(10, -1, -1, -1)
          [] n = "Ore"  -> Item(8, 5, -1, -1)
          [] n = "Coal" -> Item(2, 1, 4, 1)
          [] n = "Fur"  -> Item(-1, 2, -1, -1)
          [] n = "Hide" -> Item(-1, 5, -1, -1)
          [] n = "Hemp" -> Item(4, -1, 3, 2)
          [] n = "Flax" -> Item(8, -1, 4, 5)
          [] n = "Silk" -> Item(-1, -1, 2, 1)
          [] n = "Bone" -> Item(-1, -1, -1, -1)]

\* data["recipes"] as loaded by load_data. A and B require each other;
\* Chair requires Ghost, which is no item and no recipe.
InitRecipes ==
    [n \in {"Plank", "Ingot", "Coke", "Pelt", "Coat", "Cloth", "Table", "Rope",
           "A", "B", "Chair", "Desk"} |->
        CASE n = "Plank" -> Recipe(<<Mat("Wood", 2)>>, 1)
          [] n = "Ingot" -> Recipe(<<Mat("Ore", 1)>>, 2)
          [] n = "Coke"  -> Recipe(<<Mat("Coal", 1)>>, 2)
          [] n = "Pelt"  -> Recipe(<<Mat("Fur", 1), Mat("Hemp", 1)>>, 2)
          [] n = "Coat"  -> Recipe(<<Mat("Fur", 1), Mat("Hide", 1)>>, 1)
          [] n = "Cloth" -> Recipe(<<Mat("Hemp", 1), Mat("Flax", 1)>>, 1)
          [] n = "Table" -> Recipe(<<Mat("Plank", 2), Mat("Ingot", 1), Mat("Wood", 1)>>, 1)
          [] n = "Rope"  -> Recipe(<<Mat("Hemp", 3), Mat("Silk", 1), Mat("Bone", 1)>>, 2)
          [] n = "A"     -> Recipe(<<Mat("B", 1)>>, 1)
          [] n = "B"     -> Recipe(<<Mat("A", 1)>>, 1)
          [] n = "Chair" -> Recipe(<<Mat("Plank", 1), Mat("Ghost", 1)>>, 1)
          [] n = "Desk"  -> Recipe(<<Mat("Table", 1), Mat("Chair", 1)>>, 1)]

\* what the user can type or pick in the CraftingPage combobox
QueryNames ==
    {"Plank", "Ingot", "Table", "Rope", "Wood", "Fur", "A", "Chair", "Desk", "Ghost"}

\* override prices the user can enter in update_temp_price
TempPriceChoices == {<<"Wood", 7>>, <<"Fur", 3>>}

\* what the user can type or pick in a MaterialTrackingPage entry row:
\* item_entries as sequences of [var, quantity_var]
Entry(item, quantity) == [var |-> item, quantity_var |-> quantity]

Baskets ==
    { <<Entry("Table", 1)>>,
      <<Entry("Table", 2)>>,
      <<Entry("Rope", 2)>>,
      <<Entry("Plank", 0), Entry("Ingot", 4)>>,
      <<Entry("Ingot", 3), Entry("Rope", 1)>>,
      <<Entry("Pelt", 2), Entry("Plank", 1)>>,
      <<Entry("Plank", 1), Entry("Plank", 2)>>,
      <<Entry("Coke", 1), Entry("", 1)>>,
      <<Entry("Ingot", 2), Entry("Coke", 2), Entry("Coat", 1), Entry("Cloth", 1)>>,
      <<Entry("A", 1)>>,
      <<Entry("Chair", 1), Entry("Ghost", 2)>> }

\* values of the three cap fields; -1 is "unlimited"
TicketCaps == {-1, 0, 5}
CampCaps == {-1, 5}
NewDollarCaps == {-1, 2}

\* quantities round_quantity is called on: a whole part and a fraction at,
\* next to and away from the threshold
RoundFractions ==
    { <<0, 1>>, <<3, 100000>>, <<1, 10000>>, <<1, 3>>, <<1, 2>>,
      <<5001, 10000>>, <<2, 3>>, <<9999, 10000>>, <<99995, 100000>> }

RoundQuantities ==
    {RAdd(R(w), Norm(f[1], f[2])) : w \in 0..MaxWhole, f \in RoundFractions}

VARIABLES
    items,              \* DataManager.data["items"]
    recipes,            \* DataManager.data["recipes"]
    temp_prices,        \* DataManager.temp_prices
    use_custom_prices,  \* DataManager.use_custom_prices
    item_var,           \* CraftingPage.item_var: the queried name
    quantity_arg,       \* the quantity argument of the last get_recipe_tree call
    recipe_data,        \* what the last get_recipe_tree call returned or raised
    item_entries,       \* MaterialTrackingPage.item_entries (var, quantity_var)
    max_tickets,        \* MaterialTrackingPage.max_tickets
    max_camp,           \* MaterialTrackingPage.max_camp
    max_new_dollar,     \* MaterialTrackingPage.max_new_dollar
    selected_items,     \* MaterialTrackingPage.selected_items
    total_materials,    \* MaterialTrackingPage.total_materials
    base_materials_data,\* MaterialTrackingPage.base_materials_data
    A, B, C,            \* MaterialTrackingPage.A, .B, .C
    A_expand, B_expand, \* MaterialTrackingPage.A_expand, .B_expand
    has_plot_data,      \* hasattr(self, 'plot_data')
    plot_data,          \* MaterialTrackingPage.plot_data
    prev_A_expand,      \* MaterialTrackingPage.prev_A_expand
    prev_B_expand,      \* MaterialTrackingPage.prev_B_expand
    material_data,      \* MaterialTrackingPage.material_data
    gold_cost_label,    \* the amount shown by gold_cost_label
    shortage_label,     \* the three amounts shown by shortage_label
    round_arg,          \* the quantity argument of a round_quantity call
    round_result,       \* what the call returned, -1 before it returned
    dialog_raised,      \* the exception that left add_or_update_item, "" if none
    raised,             \* the exception that left calculate_materials, "" if none
    fresh,              \* history: calculate_materials ran and no entry row or
                        \* cap field was edited since
    expanded            \* history: the last calculate_materials call reached
                        \* the expand_A and expand_B calls of calculate_costs

dmVars == <<items, recipes, temp_prices, use_custom_prices>>
cpVars == <<item_var, quantity_arg, recipe_data>>
capVars == <<max_tickets, max_camp, max_new_dollar>>
costVars == <<A, B, C, A_expand, B_expand, has_plot_data, plot_data,
              prev_A_expand, prev_B_expand, material_data,
              gold_cost_label, shortage_label>>
histVars == <<fresh, expanded>>
mtVars == <<item_entries, capVars, selected_items, total_materials,
            base_materials_data, costVars, raised, histVars>>
rqVars == <<round_arg, round_result>>
dlgVars == <<dialog_raised>>
vars == <<dmVars, cpVars, mtVars, rqVars, dlgVars>>

None == "None"

\* a raised exception / a returned value of a method that may raise
Exc(type, arg) == [exc |-> type, arg |-> arg]
Return(v) == [val |-> v]
IsExc(r) == "exc" \in DOMAIN r
IsNode(r) == "name" \in DOMAIN r
\* the recipe tree widget before any query
NoTree == [empty |-> TRUE]

\* the DataManager object, as the self of its methods
DM == [items |-> items, recipes |-> recipes,
       temp_prices |-> temp_prices, use_custom_prices |-> use_custom_prices]

\* ------------------------------------------------------------- DataManager
\* get_item_price gone wrong: an override is used whether or not the
\* custom-price mode is on
get_item_price_OverrideAlways(self, item_name) ==
    IF item_name \in DOMAIN self.temp_prices
    THEN self.temp_prices[item_name]
    ELSE self.items[item_name].price

get_item_price(self, item_name) ==
    IF self.use_custom_prices /\ item_name \in DOMAIN self.temp_prices
    THEN self.temp_prices[item_name]
    ELSE self.items[item_name].price

\* ChildQuantity gone wrong: the division by the recipe's output is lost
ChildQuantity_NoOutputDivision(material_quantity, quantity, recipe_quantity) ==
    RMul(R(material_quantity), quantity)

\* material["quantity"] * quantity / recipe["quantity"] (lines 250 and 1324)
ChildQuantity(material_quantity, quantity, recipe_quantity) ==
    RDiv(RMul(R(material_quantity), quantity), R(recipe_quantity))

\* the node returned for a recipe
RecipeNode(item_name, quantity, level, children, total_cost) ==
    [name |-> item_name, quantity |-> quantity, level |-> level,
     is_recipe |-> TRUE, children |-> children,
     total_cost |-> total_cost, unit_cost |-> RDiv(total_cost, quantity)]

\* the node returned for an item of the catalog
LeafNode(self, item_name, quantity, level) ==
    LET price == get_item_price(self, item_name)
    IN  [name |-> item_name, quantity |-> quantity, level |-> level,
         is_recipe |-> FALSE, children |-> <<>>, price |-> R(price),
         total_cost |-> RMul(R(price), quantity), unit_cost |-> R(price)]

\* UnknownItem gone wrong: an unknown name is taken for a material that
\* costs nothing
UnknownItem_AsFreeLeaf(item_name, quantity, level) ==
    [name |-> item_name, quantity |-> quantity, level |-> level,
     is_recipe |-> FALSE, children |-> <<>>, price |-> R(0),
     total_cost |-> R(0), unit_cost |-> R(0)]

\* a name that is no recipe and no item
UnknownItem(item_name, quantity, level) == Exc("ValueError", item_name)

RECURSIVE get_recipe_tree(_, _, _, _)
RECURSIVE recipe_children(_, _, _, _, _, _)

\* the loop over recipe["materials"] from material i on; acc holds children
\* and total_cost so far. An exception raised by a child ends the loop.
recipe_children(self, recipe, quantity, level, i, acc) ==
    IF i > Len(recipe.materials) THEN acc
    ELSE LET material == recipe.materials[i]
             material_quantity ==
                 ChildQuantity(material.quantity, quantity, recipe.quantity)
             child == get_recipe_tree(self, material.name, material_quantity, level + 1)
         IN  IF IsExc(child) THEN child
             ELSE recipe_children(self, recipe, quantity, level, i + 1,
                      [children |-> Append(acc.children, child),
                       total_cost |-> RAdd(acc.total_cost, child.total_cost)])

\* level counts the nested calls: at RecursionLimit the interpreter raises
get_recipe_tree(self, item_name, quantity, level) ==
    IF level >= RecursionLimit THEN Exc("RecursionError", item_name)
    ELSE IF item_name \in DOMAIN self.recipes THEN
        LET acc == recipe_children(self, self.recipes[item_name], quantity, level, 1,
                       [children |-> <<>>, total_cost |-> R(0)])
        IN  IF IsExc(acc) THEN acc
            ELSE RecipeNode(item_name, quantity, level, acc.children, acc.total_cost)
    ELSE IF item_name \in DOMAIN self.items THEN
        LeafNode(self, item_name, quantity, level)
    ELSE UnknownItem(item_name, quantity, level)

\* ------------------------------------------------------------ CraftingPage
\* the names shown in the recipe tree widget
RECURSIVE TreeNames(_)
TreeNames(node) ==
    {node.name} \cup UNION {TreeNames(node.children[i]) : i \in DOMAIN node.children}

\* update_info for the current selection: get_recipe_tree(selected_item)
update_info(self, selected_item) ==
    IF selected_item # "" THEN get_recipe_tree(self, selected_item, R(1), 0)
    ELSE NoTree

\* UpdateInfo gone wrong: the tree is built on the catalog itself and the
\* unset gold prices it shows as 0 are written into the items
UpdateInfo_WritesCatalog(selected_item) ==
    /\ item_var' = selected_item
    /\ quantity_arg' = 1
    /\ recipe_data' = update_info(DM, selected_item)
    /\ items' = [n \in DOMAIN items |->
                    IF items[n].price = -1 THEN [items[n] EXCEPT !.price = 0]
                    ELSE items[n]]
    /\ UNCHANGED <<recipes, temp_prices, use_custom_prices, mtVars, rqVars, dlgVars>>

\* a selection in the combobox, then update_info
UpdateInfo(selected_item) ==
    /\ item_var' = selected_item
    /\ quantity_arg' = 1
    /\ recipe_data' = update_info(DM, selected_item)
    /\ UNCHANGED <<dmVars, mtVars, rqVars, dlgVars>>

\* a call get_recipe_tree(item_name, quantity) with a quantity other than
\* the default
Resolve(item_name, quantity) ==
    /\ quantity > 1
    /\ item_var' = item_name
    /\ quantity_arg' = quantity
    /\ recipe_data' = get_recipe_tree(DM, item_name, R(quantity), 0)
    /\ UNCHANGED <<dmVars, mtVars, rqVars, dlgVars>>

\* toggle_custom_prices: set_use_custom_prices, then update_info
ToggleCustomPrices ==
    /\ use_custom_prices' = ~use_custom_prices
    /\ quantity_arg' = 1
    /\ recipe_data' = update_info([DM EXCEPT !.use_custom_prices = ~use_custom_prices],
                                  item_var)
    /\ UNCHANGED <<items, recipes, temp_prices, item_var, mtVars, rqVars, dlgVars>>

\* on_item_double_click on a row of the tree that names an item, then
\* update_temp_price: set_temp_price and update_info
UpdateTempPrice(item_name, new_price) ==
    /\ IsNode(recipe_data)
    /\ item_name \in TreeNames(recipe_data)
    /\ item_name \in DOMAIN items
    /\ LET tp == [n \in DOMAIN temp_prices \cup {item_name} |->
                     IF n = item_name THEN new_price ELSE temp_prices[n]]
       IN  /\ temp_prices' = tp
           /\ recipe_data' = update_info([DM EXCEPT !.temp_prices = tp], item_var)
    /\ quantity_arg' = 1
    /\ UNCHANGED <<items, recipes, use_custom_prices, item_var, mtVars, rqVars, dlgVars>>

NextCrafting ==
    \/ \E n \in QueryNames : UpdateInfo(n)
    \/ \E n \in QueryNames, q \in 1..MaxQuantity : Resolve(n, q)
    \/ ToggleCustomPrices
    \/ \E c \in TempPriceChoices : UpdateTempPrice(c[1], c[2])

\* ---------------------------------------------------- MaterialTrackingPage
\* Python dicts kept in insertion order: sequences of <<key, value>>
DictHas(d, k) == \E i \in DOMAIN d : d[i][1] = k
DictGet(d, k) == d[CHOOSE i \in DOMAIN d : d[i][1] = k][2]
DictKeys(d) == {d[i][1] : i \in DOMAIN d}

\* d[k] = v
DictSet(d, k, v) ==
    IF DictHas(d, k)
    THEN [i \in DOMAIN d |-> IF d[i][1] = k THEN <<k, v>> ELSE d[i]]
    ELSE Append(d, <<k, v>>)

\* if k in d: d[k] += v, else: d[k] = v
DictAccumulate(d, k, v) ==
    IF DictHas(d, k)
    THEN [i \in DOMAIN d |-> IF d[i][1] = k THEN <<k, RAdd(d[i][2], v)>> ELSE d[i]]
    ELSE Append(d, <<k, v>>)

\* all of src merged into dst, in the order of src
RECURSIVE DictMerge(_, _, _)
DictMerge(dst, src, i) ==
    IF i > Len(src) THEN dst
    ELSE DictMerge(DictAccumulate(dst, src[i][1], src[i][2]), src, i + 1)

\* calculate_materials, the loop that fills selected_items from entry i on
RECURSIVE collect_selected_items(_, _, _)
collect_selected_items(entries, i, selected) ==
    IF i > Len(entries) THEN selected
    ELSE LET item == entries[i].var
             quantity == entries[i].quantity_var
         IN  collect_selected_items(entries, i + 1,
                 IF item # "" /\ quantity > 0
                 THEN DictSet(selected, item, quantity)
                 ELSE selected)

RECURSIVE get_base_materials(_, _, _, _)
RECURSIVE base_materials_loop(_, _, _, _, _, _)

\* the loop over recipe["materials"] of get_base_materials from material i on
base_materials_loop(self, recipe, quantity, depth, i, base_materials) ==
    IF i > Len(recipe.materials) THEN Return(base_materials)
    ELSE LET material == recipe.materials[i]
             material_quantity ==
                 ChildQuantity(material.quantity, quantity, recipe.quantity)
             sub_materials ==
                 get_base_materials(self, material.name, material_quantity, depth + 1)
         IN  IF IsExc(sub_materials) THEN sub_materials
             ELSE base_materials_loop(self, recipe, quantity, depth, i + 1,
                      DictMerge(base_materials, sub_materials.val, 1))

\* BaseMaterial gone wrong: the demand is rounded up to whole units where
\* it is collected
BaseMaterial_RoundedUp(self, item, quantity) ==
    Return(<< <<item, R(round_quantity(quantity))>> >>)

\* a name that is no recipe is a base material
BaseMaterial(self, item, quantity) == Return(<< <<item, quantity>> >>)

\* depth counts the nested calls: at RecursionLimit the interpreter raises
get_base_materials(self, item, quantity, depth) ==
    IF depth >= RecursionLimit THEN Exc("RecursionError", item)
    ELSE IF item \in DOMAIN self.recipes
    THEN base_materials_loop(self, self.recipes[item], quantity, depth, 1, <<>>)
    ELSE BaseMaterial(self, item, quantity)

\* get_total_materials, the loop over selected_items from entry i on
RECURSIVE get_total_materials_loop(_, _, _, _)
get_total_materials_loop(self, selected, i, total) ==
    IF i > Len(selected) THEN Return(total)
    ELSE LET materials == get_base_materials(self, selected[i][1], R(selected[i][2]), 0)
         IN  IF IsExc(materials) THEN materials
             ELSE get_total_materials_loop(self, selected, i + 1,
                      DictMerge(total, materials.val, 1))

get_total_materials(self, selected) == get_total_materials_loop(self, selected, 1, <<>>)

\* ChannelLabel gone wrong: the camp pair is looked at before the ticket
\* price
ChannelLabel_CampFirst(item_data) ==
    IF item_data.camp_contribution # -1 THEN 2
    ELSE IF item_data.ticket_price # -1 THEN 1 ELSE 3

\* channel_label of prepare_materials_data
ChannelLabel(item_data) ==
    IF item_data.ticket_price # -1 THEN 1
    ELSE IF item_data.camp_contribution # -1 THEN 2 ELSE 3

\* one row [material, quantity, channel_label, channel_price, purchase_price]
MaterialRow(material, quantity, item_data) ==
    LET channel_label == ChannelLabel(item_data)
        channel_price ==
            IF channel_label = 1 THEN item_data.ticket_price
            ELSE IF channel_label = 2
                 THEN <<item_data.camp_contribution, item_data.new_dollar>>
                 ELSE item_data.price
    IN  <<material, quantity, channel_label, channel_price, item_data.price>>

\* prepare_materials_data from entry i of total_materials on;
\* base_materials_data[material] raises KeyError for a name that is no item
RECURSIVE prepare_materials_data_loop(_, _, _, _)
prepare_materials_data_loop(total, base_data, i, materials_data) ==
    IF i > Len(total) THEN Return(materials_data)
    ELSE LET material == total[i][1]
         IN  IF material \notin DOMAIN base_data THEN Exc("KeyError", material)
             ELSE prepare_materials_data_loop(total, base_data, i + 1,
                      Append(materials_data,
                             MaterialRow(material, total[i][2], base_data[material])))

prepare_materials_data(total, base_data) ==
    prepare_materials_data_loop(total, base_data, 1, <<>>)

\* the rows of materials_data with channel label l, in order
SelectLabel(materials_data, l) ==
    SelectSeq(materials_data, LAMBDA m : m[3] = l)

\* KeyA gone wrong: gold price per ticket
KeyA_GoldPerTicket(x) == RDiv(R(x[5]), R(x[4]))

\* sort keys of split_materials: x[3]/x[4] and x[3][0]/x[4]
KeyA(x) == RDiv(R(x[4]), R(x[5]))
KeyB(x) == RDiv(R(x[4][1]), R(x[5]))

\* list.sort(key=...): stable, ascending. The elements are <<key, row>>
\* pairs; sorted is sorted already; x goes after every element whose key is
\* not greater than its own.
InsertByKey(sorted, x) ==
    LET after == {i \in DOMAIN sorted : RLe(sorted[i][1], x[1])}
        pos == IF after = {} THEN 0
               ELSE CHOOSE i \in after : \A j \in after : j <= i
    IN  SubSeq(sorted, 1, pos) \o <<x>> \o SubSeq(sorted, pos + 1, Len(sorted))

RECURSIVE SortByKey(_, _, _)
SortByKey(keyed, i, sorted) ==
    IF i > Len(keyed) THEN [j \in DOMAIN sorted |-> sorted[j][2]]
    ELSE SortByKey(keyed, i + 1, InsertByKey(sorted, keyed[i]))

\* split_materials; a key x/0 raises ZeroDivisionError
split_materials(materials_data) ==
    LET a == SelectLabel(materials_data, 1)
        b == SelectLabel(materials_data, 2)
        c == SelectLabel(materials_data, 3)
    IN  IF \E i \in DOMAIN a : a[i][5] = 0 THEN Exc("ZeroDivisionError", "A")
        ELSE IF \E i \in DOMAIN b : b[i][5] = 0 THEN Exc("ZeroDivisionError", "B")
        ELSE Return([A |-> SortByKey([i \in DOMAIN a |-> <<KeyA(a[i]), a[i]>>], 1, <<>>),
                     B |-> SortByKey([i \in DOMAIN b |-> <<KeyB(b[i]), b[i]>>], 1, <<>>),
                     C |-> c])

\* sum(m[1] * m[4] for m in list if m[4] != -1), from row i on
RECURSIVE GoldCost(_, _)
GoldCost(list, i) ==
    IF i > Len(list) THEN R(0)
    ELSE RAdd(IF list[i][5] # -1 THEN RMul(list[i][2], R(list[i][5])) ELSE R(0),
              GoldCost(list, i + 1))

\* UnitCount gone wrong: a fraction of a unit is dropped
UnitCount_Floor(quantity) == Floor(quantity)

\* the number of unit entries of a row: range(round_quantity(quantity))
UnitCount(quantity) == round_quantity(quantity)

\* expand_A_units gone wrong: the gold price of a unit is added to the
\* remaining gold cost
RECURSIVE expand_A_units_GoldAdded(_, _, _)
expand_A_units_GoldAdded(m, n, st) ==
    IF n <= 0 THEN st
    ELSE LET ticket_cost == st.ticket_cost + m[4]
             gold_cost_A == IF m[5] # -1 THEN RAdd(st.gold_cost_A, R(m[5]))
                            ELSE st.gold_cost_A
         IN  expand_A_units_GoldAdded(m, n - 1,
                 [ticket_cost |-> ticket_cost, gold_cost_A |-> gold_cost_A,
                  A_expand |-> Append(st.A_expand, <<m[1], ticket_cost, gold_cost_A>>)])

\* the inner loop of expand_A: n more units of row m
RECURSIVE expand_A_units(_, _, _)
expand_A_units(m, n, st) ==
    IF n <= 0 THEN st
    ELSE LET ticket_cost == st.ticket_cost + m[4]
             gold_cost_A == IF m[5] # -1 THEN RSub(st.gold_cost_A, R(m[5]))
                            ELSE st.gold_cost_A
         IN  expand_A_units(m, n - 1,
                 [ticket_cost |-> ticket_cost, gold_cost_A |-> gold_cost_A,
                  A_expand |-> Append(st.A_expand, <<m[1], ticket_cost, gold_cost_A>>)])

RECURSIVE expand_A_loop(_, _, _)
expand_A_loop(list, i, st) ==
    IF i > Len(list) THEN st.A_expand
    ELSE expand_A_loop(list, i + 1,
             expand_A_units(list[i], UnitCount(list[i][2]), st))

expand_A(list) ==
    expand_A_loop(list, 1,
        [ticket_cost |-> 0, gold_cost_A |-> GoldCost(list, 1), A_expand |-> <<>>])

\* the inner loop of expand_B: n more units of row m
RECURSIVE expand_B_units(_, _, _)
expand_B_units(m, n, st) ==
    IF n <= 0 THEN st
    ELSE LET camp_cost == st.camp_cost + m[4][1]
             new_dollar_cost == st.new_dollar_cost + m[4][2]
             gold_cost_B == IF m[5] # -1 THEN RSub(st.gold_cost_B, R(m[5]))
                            ELSE st.gold_cost_B
         IN  expand_B_units(m, n - 1,
                 [camp_cost |-> camp_cost, new_dollar_cost |-> new_dollar_cost,
                  gold_cost_B |-> gold_cost_B,
                  B_expand |-> Append(st.B_expand,
                      <<m[1], camp_cost, new_dollar_cost, gold_cost_B>>)])

RECURSIVE expand_B_loop(_, _, _)
expand_B_loop(list, i, st) ==
    IF i > Len(list) THEN st.B_expand
    ELSE expand_B_loop(list, i + 1,
             expand_B_units(list[i], UnitCount(list[i][2]), st))

expand_B(list) ==
    expand_B_loop(list, 1,
        [camp_cost |-> 0, new_dollar_cost |-> 0,
         gold_cost_B |-> GoldCost(list, 1), B_expand |-> <<>>])

\* create_plot_data gone wrong: the camp curve gives its camp cost where its
\* remaining gold cost belongs
create_plot_data_CampCostForGold(a_expand, b_expand) ==
    IF a_expand = <<>> \/ b_expand = <<>>
    THEN [X |-> <<>>, Y |-> <<>>, Z |-> <<>>]
    ELSE [X |-> [j \in DOMAIN b_expand |-> [i \in DOMAIN a_expand |-> a_expand[i][2]]],
          Y |-> [j \in DOMAIN b_expand |-> [i \in DOMAIN a_expand |-> b_expand[j][2]]],
          Z |-> [j \in DOMAIN b_expand |->
                    [i \in DOMAIN a_expand |-> RAdd(a_expand[i][3], R(b_expand[j][2]))]]]

\* create_plot_data: meshgrid of the ticket and camp values, and
\* Z[j][i] = A_gold[i] + B_gold[j]; three empty arrays if a curve is empty
create_plot_data(a_expand, b_expand) ==
    IF a_expand = <<>> \/ b_expand = <<>>
    THEN [X |-> <<>>, Y |-> <<>>, Z |-> <<>>]
    ELSE [X |-> [j \in DOMAIN b_expand |-> [i \in DOMAIN a_expand |-> a_expand[i][2]]],
          Y |-> [j \in DOMAIN b_expand |-> [i \in DOMAIN a_expand |-> b_expand[j][2]]],
          Z |-> [j \in DOMAIN b_expand |->
                    [i \in DOMAIN a_expand |-> RAdd(a_expand[i][3], b_expand[j][4])]]]

\* {item[0]: 0 for item in list}
ZeroBucket(list) == [n \in {list[i][1] : i \in DOMAIN list} |-> R(0)]

\* for item in list: bucket[item[0]] = item[1]
WholeBucket(list) ==
    [n \in {list[i][1] : i \in DOMAIN list} |->
        list[CHOOSE i \in DOMAIN list : list[i][1] = n][2]]

Last(s) == s[Len(s)]

\* TicketAccepts gone wrong: the comparison is the wrong way round
TicketAccepts_Inverted(cap, item) == cap < item[2]

\* the tests of calculate_A_materials on a curve entry
TicketAccepts(cap, item) == cap >= item[2]
GoldKnownA(item) == item[3] # R(-1)

RECURSIVE walk_A(_, _, _, _)
walk_A(a_expand, i, cap, st) ==
    IF i > Len(a_expand) THEN st
    ELSE LET item == a_expand[i]
         IN  walk_A(a_expand, i + 1, cap,
                 IF TicketAccepts(cap, item)
                 THEN [st EXCEPT !.A1[item[1]] = RAdd(@, R(1)), !.temp_A = item]
                 ELSE IF GoldKnownA(item)
                      THEN [st EXCEPT !.A2[item[1]] = RAdd(@, R(1))]
                      ELSE [st EXCEPT !.A3[item[1]] = RAdd(@, R(1))])

NoTempA == <<None, 0, R(0)>>

\* calculate_A_materials gone wrong: the unlimited cap is walked like a
\* number
calculate_A_materials_AlwaysWalks(a, a_expand, cap) ==
    walk_A(a_expand, 1, cap,
        [A1 |-> ZeroBucket(a), A2 |-> ZeroBucket(a), A3 |-> ZeroBucket(a),
         temp_A |-> NoTempA])

calculate_A_materials(a, a_expand, cap) ==
    IF cap = -1
    THEN [A1 |-> WholeBucket(a), A2 |-> ZeroBucket(a), A3 |-> ZeroBucket(a),
          temp_A |-> IF a_expand # <<>> THEN Last(a_expand) ELSE NoTempA]
    ELSE walk_A(a_expand, 1, cap,
             [A1 |-> ZeroBucket(a), A2 |-> ZeroBucket(a), A3 |-> ZeroBucket(a),
              temp_A |-> NoTempA])

\* CampAccepts gone wrong: one unlimited cap switches both tests off
CampAccepts_UnlimitedBypassesBoth(camp_cap, new_dollar_cap, item) ==
    \/ camp_cap = -1
    \/ new_dollar_cap = -1
    \/ (camp_cap >= item[2] /\ new_dollar_cap >= item[3])

\* the tests of calculate_B_materials on a curve entry
CampAccepts(camp_cap, new_dollar_cap, item) ==
    /\ (camp_cap = -1 \/ camp_cap >= item[2])
    /\ (new_dollar_cap = -1 \/ new_dollar_cap >= item[3])
GoldKnownB(item) == item[4] # R(-1)

RECURSIVE walk_B(_, _, _, _, _)
walk_B(b_expand, i, camp_cap, new_dollar_cap, st) ==
    IF i > Len(b_expand) THEN st
    ELSE LET item == b_expand[i]
         IN  walk_B(b_expand, i + 1, camp_cap, new_dollar_cap,
                 IF CampAccepts(camp_cap, new_dollar_cap, item)
                 THEN [st EXCEPT !.B1[item[1]] = RAdd(@, R(1)), !.temp_B = item]
                 ELSE IF GoldKnownB(item)
                      THEN [st EXCEPT !.B2[item[1]] = RAdd(@, R(1))]
                      ELSE [st EXCEPT !.B3[item[1]] = RAdd(@, R(1))])

NoTempB == <<None, 0, 0, R(0)>>

calculate_B_materials(b, b_expand, camp_cap, new_dollar_cap) ==
    IF camp_cap = -1 /\ new_dollar_cap = -1
    THEN [B1 |-> WholeBucket(b), B2 |-> ZeroBucket(b), B3 |-> ZeroBucket(b),
          temp_B |-> IF b_expand # <<>> THEN Last(b_expand) ELSE NoTempB]
    ELSE walk_B(b_expand, 1, camp_cap, new_dollar_cap,
             [B1 |-> ZeroBucket(b), B2 |-> ZeroBucket(b), B3 |-> ZeroBucket(b),
              temp_B |-> NoTempB])

\* temp_C of calculate_C_materials: sum of item[1] * item[3] over the rows
\* with item[3] != -1, from row i on
RECURSIVE GoldOnlyCost(_, _)
GoldOnlyCost(c, i) ==
    IF i > Len(c) THEN R(0)
    ELSE RAdd(IF c[i][4] # -1 THEN RMul(c[i][2], R(c[i][4])) ELSE R(0),
              GoldOnlyCost(c, i + 1))

\* calculate_C_materials gone wrong: the price is not tested against -1
calculate_C_materials_NoPriceTest(c) ==
    LET names == {c[i][1] : i \in DOMAIN c}
        row(n) == c[CHOOSE i \in DOMAIN c : c[i][1] = n]
        cost == [i \in DOMAIN c |-> RMul(c[i][2], R(c[i][4]))]
    IN  [C2 |-> [n \in names |-> row(n)[2]],
         C3 |-> [n \in names |-> R(0)],
         temp_C |-> IF c = <<>> THEN R(0)
                    ELSE RAdd(cost[1], GoldOnlyCost(c, 2))]

calculate_C_materials(c) ==
    LET names == {c[i][1] : i \in DOMAIN c}
        row(n) == c[CHOOSE i \in DOMAIN c : c[i][1] = n]
    IN  [C2 |-> [n \in names |-> IF row(n)[4] # -1 THEN row(n)[2] ELSE R(0)],
         C3 |-> [n \in names |-> IF row(n)[4] # -1 THEN R(0) ELSE row(n)[2]],
         temp_C |-> GoldOnlyCost(c, 1)]

calculate_material_data(a, b, c, a_expand, b_expand, t_cap, c_cap, d_cap) ==
    LET ra == calculate_A_materials(a, a_expand, t_cap)
        rb == calculate_B_materials(b, b_expand, c_cap, d_cap)
        rc == calculate_C_materials(c)
    IN  [A1 |-> ra.A1, A2 |-> ra.A2, A3 |-> ra.A3, temp_A |-> ra.temp_A,
         B1 |-> rb.B1, B2 |-> rb.B2, B3 |-> rb.B3, temp_B |-> rb.temp_B,
         C2 |-> rc.C2, C3 |-> rc.C3, temp_C |-> rc.temp_C]

\* update_gold_materials: temp_A[2] + temp_B[3] + temp_C
GoldCostShown(data) == RAdd(RAdd(data.temp_A[3], data.temp_B[4]), data.temp_C)

\* update_unavailable_materials: the three shortages
ShortageShown(data, a_expand, b_expand, t_cap, c_cap, d_cap) ==
    << IF a_expand # <<>>
       THEN (IF data.temp_A # Last(a_expand) THEN Last(a_expand)[2] - t_cap ELSE 0)
       ELSE 0,
       IF b_expand # <<>>
       THEN (IF data.temp_B # Last(b_expand) THEN Last(b_expand)[2] - c_cap ELSE 0)
       ELSE 0,
       IF b_expand # <<>>
       THEN (IF data.temp_B # Last(b_expand) THEN Last(b_expand)[3] - d_cap ELSE 0)
       ELSE 0 >>

\* material_data = None
NoData == [empty |-> TRUE]
HasData(data) == "A1" \in DOMAIN data

\* plot_data_changed gone wrong: only the lengths of the curves are compared
plot_data_changed_LengthOnly(a_expand, b_expand) ==
    \/ ~has_plot_data
    \/ Len(prev_A_expand) # Len(a_expand)
    \/ Len(prev_B_expand) # Len(b_expand)

\* the test of calculate_costs for building plot_data anew
plot_data_changed(a_expand, b_expand) ==
    \/ ~has_plot_data
    \/ prev_A_expand # a_expand
    \/ prev_B_expand # b_expand

\* calculate_costs and update_displays; an exception leaves what was
\* assigned before it and skips the rest
calculate_costs(total, base_data) ==
    LET materials_data == prepare_materials_data(total, base_data)
    IN  IF IsExc(materials_data)
        THEN /\ raised' = materials_data.exc
             /\ UNCHANGED costVars
        ELSE LET split == split_materials(materials_data.val)
             IN  IF IsExc(split)
                 THEN /\ raised' = split.exc
                      /\ UNCHANGED costVars
                 ELSE LET a == split.val.A
                          b == split.val.B
                          c == split.val.C
                          a_expand == expand_A(a)
                          b_expand == expand_B(b)
                          rebuild == plot_data_changed(a_expand, b_expand)
                          data == calculate_material_data(a, b, c, a_expand, b_expand,
                                      max_tickets, max_camp, max_new_dollar)
                      IN  /\ A' = a
                          /\ B' = b
                          /\ C' = c
                          /\ A_expand' = a_expand
                          /\ B_expand' = b_expand
                          /\ has_plot_data' = TRUE
                          /\ plot_data' = IF rebuild
                                          THEN create_plot_data(a_expand, b_expand)
                                          ELSE plot_data
                          /\ prev_A_expand' = IF rebuild THEN a_expand ELSE prev_A_expand
                          /\ prev_B_expand' = IF rebuild THEN b_expand ELSE prev_B_expand
                          /\ material_data' = data
                          /\ gold_cost_label' = GoldCostShown(data)
                          /\ shortage_label' =
                                 ShortageShown(data, a_expand, b_expand,
                                     max_tickets, max_camp, max_new_dollar)
                          /\ raised' = ""

\* the "计算材料" button: calculate_materials
CalculateMaterials ==
    LET selected == collect_selected_items(item_entries, 1, <<>>)
        total == get_total_materials(DM, selected)
    IN  /\ selected_items' = selected
        /\ IF IsExc(total)
           THEN /\ raised' = total.exc
                /\ UNCHANGED <<total_materials, base_materials_data, costVars>>
           ELSE /\ total_materials' = total.val
                /\ base_materials_data' = items
                /\ calculate_costs(total.val, items)
        /\ fresh' = TRUE
        /\ expanded' = (raised' = "")
        /\ UNCHANGED <<dmVars, cpVars, rqVars, dlgVars, item_entries, capVars>>

\* the user edits the entry rows (add_item_entry, remove_item_entry, typing)
SetEntries(entries) ==
    /\ item_entries # entries
    /\ item_entries' = entries
    /\ UNCHANGED <<dmVars, cpVars, rqVars, dlgVars, capVars, selected_items, total_materials,
                   base_materials_data, costVars, raised>>
    /\ fresh' = FALSE
    /\ UNCHANGED expanded

\* the user sets a cap field
SetMaxTickets(v) ==
    /\ max_tickets # v
    /\ max_tickets' = v
    /\ UNCHANGED <<dmVars, cpVars, rqVars, dlgVars, item_entries, max_camp, max_new_dollar,
                   selected_items, total_materials, base_materials_data,
                   costVars, raised>>
    /\ fresh' = FALSE
    /\ UNCHANGED expanded

SetMaxCamp(v) ==
    /\ max_camp # v
    /\ max_camp' = v
    /\ UNCHANGED <<dmVars, cpVars, rqVars, dlgVars, item_entries, max_tickets, max_new_dollar,
                   selected_items, total_materials, base_materials_data,
                   costVars, raised>>
    /\ fresh' = FALSE
    /\ UNCHANGED expanded

SetMaxNewDollar(v) ==
    /\ max_new_dollar # v
    /\ max_new_dollar' = v
    /\ UNCHANGED <<dmVars, cpVars, rqVars, dlgVars, item_entries, max_tickets, max_camp,
                   selected_items, total_materials, base_materials_data,
                   costVars, raised>>
    /\ fresh' = FALSE
    /\ UNCHANGED expanded

NextTracking ==
    \/ \E b \in Baskets : SetEntries(b)
    \/ \E v \in TicketCaps : SetMaxTickets(v)
    \/ \E v \in CampCaps : SetMaxCamp(v)
    \/ \E v \in NewDollarCaps : SetMaxNewDollar(v)
    \/ CalculateMaterials

\* ------------------------------------------------------------ AddItemDialog
\* DataManager.add_item: data["items"][name] = the fields
add_item(self_items, name, data) ==
    [n \in DOMAIN self_items \cup {name} |-> IF n = name THEN data ELSE self_items[n]]

\* DataManager.update_item: only an item that is in data["items"]
update_item(self_items, name, data) ==
    IF name \in DOMAIN self_items
    THEN Return([self_items EXCEPT ![name] = data])
    ELSE Exc("KeyError", name)

\* DataManager.delete_item
delete_item(self_items, name) ==
    IF name \in DOMAIN self_items
    THEN Return([n \in DOMAIN self_items \ {name} |-> self_items[n]])
    ELSE Exc("KeyError", name)

\* what the user can enter in the dialog: <<item_to_edit, name, fields>>;
\* item_to_edit = "" is the dialog opened by "添加新物品"
EditChoices ==
    { <<"Ore", "Ore", Item(4, 5, -1, -1)>>,
      <<"Wood", "Timber", Item(10, -1, -1, -1)>>,
      <<"Ore", "Coal", Item(8, 5, -1, -1)>>,
      <<"", "Ghost", Item(1, -1, -1, -1)>>,
      <<"Ore", "", Item(8, 5, -1, -1)>> }

\* the "添加" / "更新" button: add_or_update_item. An empty name raises the
\* ValueError the handler catches; a KeyError of the DataManager leaves the
\* handler after what was saved before it.
AddOrUpdateItem(item_to_edit, name, new_item_data) ==
    /\ item_to_edit = "" \/ item_to_edit \in DOMAIN items
    /\ IF name = ""
       THEN /\ dialog_raised' = ""
            /\ UNCHANGED items
       ELSE IF item_to_edit # ""
       THEN LET deleted == IF name # item_to_edit
                           THEN delete_item(items, item_to_edit)
                           ELSE Return(items)
            IN  IF IsExc(deleted)
                THEN /\ dialog_raised' = deleted.exc
                     /\ UNCHANGED items
                ELSE LET updated == update_item(deleted.val, name, new_item_data)
                     IN  IF IsExc(updated)
                         THEN /\ dialog_raised' = updated.exc
                              /\ items' = deleted.val
                         ELSE /\ dialog_raised' = ""
                              /\ items' = updated.val
       ELSE /\ dialog_raised' = ""
            /\ items' = add_item(items, name, new_item_data)
    /\ UNCHANGED <<recipes, temp_prices, use_custom_prices, cpVars, mtVars, rqVars>>

\* the entry rows and the selection used next to the dialog
EditBaskets ==
    { <<Entry("Table", 1)>>,
      <<Entry("Ingot", 3), Entry("Rope", 1)>>,
      <<Entry("Chair", 1), Entry("Ghost", 2)>> }

EditQueryNames == {"Table", "Ingot"}

NextEditing ==
    \/ \E e \in EditChoices : AddOrUpdateItem(e[1], e[2], e[3])
    \/ \E b \in EditBaskets : SetEntries(b)
    \/ \E n \in EditQueryNames : UpdateInfo(n)
    \/ CalculateMaterials

\* a call DataManager.round_quantity(round_arg)
RoundQuantity ==
    /\ round_result = -1
    /\ round_result' = round_quantity(round_arg)
    /\ UNCHANGED <<dmVars, cpVars, mtVars, dlgVars, round_arg>>

NextRounding == RoundQuantity

\* ----------------------------------------------------------- specification
InitPages ==
    /\ items = InitItems
    /\ recipes = InitRecipes
    /\ temp_prices = <<>>
    /\ use_custom_prices = FALSE
    /\ item_var = ""
    /\ quantity_arg = 1
    /\ recipe_data = NoTree
    /\ item_entries = <<Entry("", 1)>>
    /\ max_tickets = -1
    /\ max_camp = -1
    /\ max_new_dollar = -1
    /\ selected_items = <<>>
    /\ total_materials = <<>>
    /\ base_materials_data = <<>>
    /\ A = <<>>
    /\ B = <<>>
    /\ C = <<>>
    /\ A_expand = <<>>
    /\ B_expand = <<>>
    /\ has_plot_data = FALSE
    /\ plot_data = [X |-> <<>>, Y |-> <<>>, Z |-> <<>>]
    /\ prev_A_expand = <<>>
    /\ prev_B_expand = <<>>
    /\ material_data = NoData
    /\ gold_cost_label = R(0)
    /\ shortage_label = <<0, 0, 0>>
    /\ raised = ""
    /\ fresh = FALSE
    /\ expanded = FALSE
    /\ dialog_raised = ""

Init ==
    /\ InitPages
    /\ round_arg = R(0)
    /\ round_result = -1

\* the pages idle, round_quantity about to be called on a quantity
InitRounding ==
    /\ InitPages
    /\ round_arg \in RoundQuantities
    /\ round_result = -1

Next == NextCrafting \/ NextTracking \/ NextEditing \/ NextRounding

Spec == Init /\ [][Next]_vars

\* the CraftingPage alone, the MaterialTrackingPage idle
SpecCrafting == Init /\ [][NextCrafting]_vars

\* the MaterialTrackingPage alone, the CraftingPage idle
SpecTracking == Init /\ [][NextTracking]_vars

\* the item dialog next to a computation of each page
SpecEditing == Init /\ [][NextEditing]_vars

\* round_quantity alone
SpecRounding == InitRounding /\ [][NextRounding]_vars

\* ------------------------------------------------------------------ claims
\* the recipe graph: the names a name requires, directly and transitively
MaterialNames(n) ==
    IF n \in DOMAIN recipes
    THEN {recipes[n].materials[i].name : i \in DOMAIN recipes[n].materials}
    ELSE {}

RECURSIVE Closure(_)
Closure(S) ==
    LET T == S \cup UNION {MaterialNames(n) : n \in S}
    IN  IF T = S THEN S ELSE Closure(T)

Reach(n) == Closure({n})
OnCycle(n) == n \in Closure(MaterialNames(n))
ReachesCycle(n) == \E m \in Reach(n) : OnCycle(m)
Unknown(n) == n \notin DOMAIN recipes /\ n \notin DOMAIN items
ReachesUnknown(n) == \E m \in Reach(n) : Unknown(m)

\* the sum of f[x] over the finite set S
RECURSIVE RSum(_, _)
RSum(S, f) ==
    IF S = {} THEN R(0)
    ELSE LET x == CHOOSE y \in S : TRUE
         IN  RAdd(f[x], RSum(S \ {x}, f))

RECURSIVE C1_NodeCorrect(_)
C1_NodeCorrect(node) ==
    IF node.is_recipe
    THEN LET recipe == recipes[node.name]
             childCost == [i \in DOMAIN node.children |-> node.children[i].total_cost]
         IN  /\ Len(node.children) = Len(recipe.materials)
             /\ \A i \in DOMAIN node.children :
                    /\ node.children[i].name = recipe.materials[i].name
                    \* quantity = q_i * n / Q, stated as quantity * Q = q_i * n
                    /\ RMul(node.children[i].quantity, R(recipe.quantity))
                           = RMul(R(recipe.materials[i].quantity), node.quantity)
                    /\ node.children[i].level = node.level + 1
                    /\ C1_NodeCorrect(node.children[i])
             /\ node.total_cost = RSum(DOMAIN node.children, childCost)
             /\ RMul(node.unit_cost, node.quantity) = node.total_cost
    ELSE /\ node.children = <<>>
         /\ node.total_cost = RMul(R(get_item_price(DM, node.name)), node.quantity)

\* C1: a resolved recipe node has one child per material of the recipe, in
\* recipe order, each resolved at quantity q_i*n/Q; its totalCost is the sum
\* of its children's totalCost and its unitCost is totalCost/n, at every
\* depth. Plank (2 Wood at 10 each) at quantity 3 costs 60, 20 per unit.
C1_BomCorrect ==
    IsNode(recipe_data) =>
        /\ recipe_data.name = item_var
        /\ recipe_data.quantity = R(quantity_arg)
        /\ C1_NodeCorrect(recipe_data)
        /\ (item_var = "Plank" /\ quantity_arg = 3
                /\ get_item_price(DM, "Wood") = 10)
           => (recipe_data.total_cost = R(60) /\ recipe_data.unit_cost = R(20))

\* Table at quantity 3: nested recipes, a fractional child quantity below
C1_Witness ==
    /\ IsNode(recipe_data)
    /\ recipe_data.name = "Table"
    /\ quantity_arg = 3
    /\ Len(recipe_data.children) = 3
    /\ recipe_data.children[2].children[1].quantity = <<3, 2>>

\* C2: resolving a product whose recipe graph reaches a cycle fails with
\* CyclicRecipe.
C2_CyclicRecipe ==
    (item_var # "" /\ ReachesCycle(item_var))
        => (IsExc(recipe_data) /\ recipe_data.exc = "CyclicRecipe")

\* the calculation behind the stored results used the entry rows and caps
\* that are still in the fields, and it ran to its end
Evaluated == fresh /\ raised = "" /\ HasData(material_data)

Price(n) == base_materials_data[n].price

\* Acquired + GoldFallback + Unavailable of a material, in its channel
BucketSum(n) ==
    IF n \in DOMAIN material_data.A1
    THEN RAdd(RAdd(material_data.A1[n], material_data.A2[n]), material_data.A3[n])
    ELSE IF n \in DOMAIN material_data.B1
    THEN RAdd(RAdd(material_data.B1[n], material_data.B2[n]), material_data.B3[n])
    ELSE RAdd(material_data.C2[n], material_data.C3[n])

\* C3: for every aggregated material the three buckets sum to roundQuantity
\* of its aggregated demand, whatever the caps.
C3_PartitionExact ==
    Evaluated =>
        \A i \in DOMAIN total_materials :
            BucketSum(total_materials[i][1])
                = R(round_quantity(total_materials[i][2]))

\* C4: with a ticket cap of 0, a ticket material with gold price g > 0 and
\* ticket price > 0 has no unit acquired and all k rounded units in
\* GoldFallback, and the ticket channel reports the gold cost k*g for them.
C4_ZeroCapGoldFallback ==
    LET priced(i) == A[i][5] > 0 /\ A[i][4] > 0
        unitsGold == [i \in DOMAIN A |-> RMul(R(round_quantity(A[i][2])), R(A[i][5]))]
    IN  (Evaluated /\ max_tickets = 0) =>
            /\ \A i \in DOMAIN A :
                   priced(i) =>
                       /\ material_data.A1[A[i][1]] = R(0)
                       /\ material_data.A2[A[i][1]] = R(round_quantity(A[i][2]))
            /\ (\A i \in DOMAIN A : priced(i))
                   => material_data.temp_A[3] = RSum(DOMAIN A, unitsGold)

\* C5: the reported total gold cost is the sum over the GoldFallback buckets
\* of the three channels of bucket quantity * gold price.
C5_TotalGoldCost ==
    LET gold(bucket) == [n \in DOMAIN bucket |-> RMul(bucket[n], R(Price(n)))]
        goldA == gold(material_data.A2)
        goldB == gold(material_data.B2)
        goldC == gold(material_data.C2)
    IN  Evaluated =>
            gold_cost_label =
                RAdd(RAdd(RSum(DOMAIN material_data.A2, goldA),
                          RSum(DOMAIN material_data.B2, goldB)),
                     RSum(DOMAIN material_data.C2, goldC))

\* C6: in a finite-cap walk a unit that is not accepted is in GoldFallback
\* iff its material has a gold price, and in Unavailable iff it has none.
C6_FallbackIffGoldPrice ==
    Evaluated =>
        /\ max_tickets # -1 =>
               \A n \in DOMAIN material_data.A1 :
                   /\ Price(n) = -1 => material_data.A2[n] = R(0)
                   /\ Price(n) # -1 => material_data.A3[n] = R(0)
        /\ (max_camp # -1 \/ max_new_dollar # -1) =>
               \A n \in DOMAIN material_data.B1 :
                   /\ Price(n) = -1 => material_data.B2[n] = R(0)
                   /\ Price(n) # -1 => material_data.B3[n] = R(0)

\* a leaf of the queried tree whose gold price is unset and not overridden
Unpriced(n) ==
    /\ n \in DOMAIN items
    /\ n \notin DOMAIN recipes
    /\ items[n].price = -1
    /\ ~(use_custom_prices /\ n \in DOMAIN temp_prices)

\* C7: resolving a tree with a leaf whose gold price is unset and not
\* overridden fails with PriceUnavailable.
C7_PriceUnavailable ==
    (/\ item_var # ""
     /\ ~ReachesCycle(item_var)
     /\ ~ReachesUnknown(item_var)
     /\ \E n \in Reach(item_var) : Unpriced(n))
        => (IsExc(recipe_data) /\ recipe_data.exc = "PriceUnavailable")

\* C8: resolving a name that is no recipe and no item, directly or through
\* material lists at any depth (of an acyclic tree), raises the not-found
\* error (ValueError "Item not found") naming it, and returns no node.
C8_NotFound ==
    (item_var # "" /\ ReachesUnknown(item_var) /\ ~ReachesCycle(item_var))
        => /\ ~IsNode(recipe_data)
           /\ IsExc(recipe_data)
           /\ recipe_data.exc = "ValueError"
           /\ Unknown(recipe_data.arg)
           /\ recipe_data.arg \in Reach(item_var)

\* Desk -> Chair -> Ghost: the unknown name two levels down, after Table
\* was resolved
C8_Witness ==
    /\ item_var = "Desk"
    /\ IsExc(recipe_data)
    /\ recipe_data.exc = "ValueError"
    /\ recipe_data.arg = "Ghost"

\* C9: a name that is no recipe and no item is never a base material of the
\* stored demand mapping.
C9_UnknownNotAggregated ==
    \A i \in DOMAIN total_materials : ~Unknown(total_materials[i][1])

\* the demand for material m of quantity units of item, path by path
RECURSIVE Demand(_, _, _)
Demand(item, quantity, m) ==
    IF item \in DOMAIN recipes
    THEN LET recipe == recipes[item]
             path == [i \in DOMAIN recipe.materials |->
                         Demand(recipe.materials[i].name,
                                RDiv(RMul(R(recipe.materials[i].quantity), quantity),
                                     R(recipe.quantity)),
                                m)]
         IN  RSum(DOMAIN recipe.materials, path)
    ELSE IF item = m THEN quantity ELSE R(0)

\* C10: the aggregated quantity of each base material is the sum over all
\* basket entries (the same product in two entries counted twice) and all
\* paths of the path's contribution.
C10_BasketSum ==
    LET entryDemand(m) ==
            LET one == [i \in DOMAIN item_entries |->
                    IF item_entries[i].var # "" /\ item_entries[i].quantity_var > 0
                    THEN Demand(item_entries[i].var,
                                R(item_entries[i].quantity_var), m)
                    ELSE R(0)]
            IN  RSum(DOMAIN item_entries, one)
        stored(m) ==
            IF DictHas(total_materials, m) THEN DictGet(total_materials, m) ELSE R(0)
    IN  (fresh /\ raised = "") =>
            \A m \in DOMAIN items \cup DictKeys(total_materials) :
                stored(m) = entryDemand(m)

\* a demand mapping added to itself, material by material
Doubled(d) == [i \in DOMAIN d |-> <<d[i][1], RAdd(d[i][2], d[i][2])>>]

\* the same mapping: the same materials with the same quantities
SameMapping(d, e) ==
    /\ DictKeys(d) = DictKeys(e)
    /\ Len(d) = Len(e)
    /\ \A k \in DictKeys(d) : DictGet(d, k) = DictGet(e, k)

\* C11: for a basket whose sole entry is (P, 2), P with an acyclic recipe
\* tree, the aggregated demand is aggregate([(P, 1)]) added to itself
\* material by material.
C11_AggregationLinear ==
    (/\ fresh
     /\ Len(selected_items) = 1
     /\ selected_items[1][2] = 2
     /\ ~ReachesCycle(selected_items[1][1]))
        => LET P == selected_items[1][1]
               one == get_total_materials(DM, << <<P, 1>> >>)
           IN  /\ ~IsExc(one)
               /\ SameMapping(total_materials, Doubled(one.val))

\* Table twice: Wood through two paths, half an Ore for one Table
C11_Witness ==
    /\ fresh
    /\ raised = ""
    /\ selected_items = << <<"Table", 2>> >>
    /\ DictGet(total_materials, "Ore") = R(1)
    /\ DictGet(total_materials, "Wood") = R(10)
    /\ DictGet(get_total_materials(DM, << <<"Table", 1>> >>).val, "Ore") = <<1, 2>>

\* the channel of a material by the priority ticket > camp pair > gold
PriorityChannel(n) ==
    LET item_data == base_materials_data[n]
    IN  IF item_data.ticket_price # -1 THEN "Ticket"
        ELSE IF item_data.camp_contribution # -1 /\ item_data.new_dollar # -1
             THEN "CampPair"
        ELSE IF item_data.price # -1 THEN "GoldOnly"
        ELSE "Unavailable"

\* the rows of a channel list that name material n
RowsOf(list, n) == {i \in DOMAIN list : list[i][1] = n}

\* the channels the stored results put material n of demand q in
AssignedChannels(n, q) ==
    {ch \in {"Ticket", "CampPair", "GoldOnly", "Unavailable"} :
        \/ ch = "Ticket" /\ RowsOf(A, n) # {}
        \/ ch = "CampPair" /\ RowsOf(B, n) # {}
        \/ /\ ch = "GoldOnly"
           /\ RowsOf(C, n) # {}
           /\ material_data.C2[n] = q
        \/ /\ ch = "Unavailable"
           /\ RowsOf(C, n) # {}
           /\ material_data.C3[n] = q}

\* C12: every aggregated material is in exactly one channel, once, and the
\* channel is the one of the priority: Ticket if the ticket price is set,
\* else CampPair if the camp pair is set, else GoldOnly if the gold price
\* is set, else Unavailable.
C12_ChannelPriority ==
    Evaluated =>
        \A i \in DOMAIN total_materials :
            LET n == total_materials[i][1]
            IN  /\ AssignedChannels(n, total_materials[i][2]) = {PriorityChannel(n)}
                /\ Cardinality(RowsOf(A, n)) + Cardinality(RowsOf(B, n))
                       + Cardinality(RowsOf(C, n)) = 1

\* Coal has a ticket price, a camp pair and a gold price: Ticket
C12_Witness ==
    /\ Evaluated
    /\ DictHas(total_materials, "Coal")
    /\ base_materials_data["Coal"].ticket_price # -1
    /\ base_materials_data["Coal"].camp_contribution # -1
    /\ base_materials_data["Coal"].price # -1
    /\ RowsOf(A, "Coal") # {}

\* no price of the rows of a channel list is negative (a gold price may be
\* unset)
NonNegativePrices ==
    /\ \A i \in DOMAIN A : A[i][4] >= 0 /\ (A[i][5] >= 0 \/ A[i][5] = -1)
    /\ \A i \in DOMAIN B :
           /\ B[i][4][1] >= 0
           /\ B[i][4][2] >= 0
           /\ (B[i][5] >= 0 \/ B[i][5] = -1)

\* C13: along a built Ticket or CampPair curve over materials with
\* non-negative prices, the cumulative ticket cost, camp cost and new-dollar
\* cost never decrease from an entry to the next and the remaining gold
\* cost never increases.
C13_CurveMonotone ==
    NonNegativePrices =>
        /\ \A i \in 1..(Len(A_expand) - 1) :
               /\ A_expand[i][2] <= A_expand[i + 1][2]
               /\ RLe(A_expand[i + 1][3], A_expand[i][3])
        /\ \A i \in 1..(Len(B_expand) - 1) :
               /\ B_expand[i][2] <= B_expand[i + 1][2]
               /\ B_expand[i][3] <= B_expand[i + 1][3]
               /\ RLe(B_expand[i + 1][4], B_expand[i][4])

\* two ticket entries, and three camp entries of two materials of which
\* one has no gold price
C13_Witness ==
    /\ NonNegativePrices
    /\ Len(A_expand) = 2
    /\ Len(B_expand) = 3
    /\ B_expand[1][1] # B_expand[3][1]
    /\ \E i \in DOMAIN B : B[i][5] = -1
    /\ RLt(A_expand[2][3], A_expand[1][3])

AllUnlimited == max_tickets = -1 /\ max_camp = -1 /\ max_new_dollar = -1

\* C14: with the three caps unlimited, no material of the Ticket and
\* CampPair channels has anything in GoldFallback or Unavailable, the
\* frontier of each curve is its last entry, and no shortfall is reported.
C14_UnlimitedBudget ==
    (Evaluated /\ AllUnlimited) =>
        /\ \A n \in DOMAIN material_data.A1 :
               material_data.A2[n] = R(0) /\ material_data.A3[n] = R(0)
        /\ \A n \in DOMAIN material_data.B1 :
               material_data.B2[n] = R(0) /\ material_data.B3[n] = R(0)
        /\ A_expand # <<>> => material_data.temp_A = Last(A_expand)
        /\ B_expand # <<>> => material_data.temp_B = Last(B_expand)
        /\ shortage_label = <<0, 0, 0>>

\* both curves built, the three caps unlimited
C14_Witness ==
    /\ Evaluated
    /\ AllUnlimited
    /\ Len(A_expand) >= 2
    /\ Len(B_expand) >= 3
    /\ material_data.temp_A = Last(A_expand)
    /\ material_data.temp_B = Last(B_expand)

\* the walk accepted every entry of the curve (or the curve is empty)
TicketCurveConsumed == A_expand = <<>> \/ material_data.temp_A = Last(A_expand)
CampCurveConsumed == B_expand = <<>> \/ material_data.temp_B = Last(B_expand)

\* C15: the ticket, camp-contribution and new-dollar shortfalls shown are
\* each zero when the cap of that currency is unlimited or the curve of
\* that currency was fully consumed, for every combination of caps.
C15_ShortfallZero ==
    Evaluated =>
        /\ (max_tickets = -1 \/ TicketCurveConsumed) => shortage_label[1] = 0
        /\ (max_camp = -1 \/ CampCurveConsumed) => shortage_label[2] = 0
        /\ (max_new_dollar = -1 \/ CampCurveConsumed) => shortage_label[3] = 0

\* entry i of the camp curve is within the caps, an unlimited cap of one
\* currency leaving the decision to the cap of the other
WithinCampCaps(i) ==
    IF max_camp = -1 THEN B_expand[i][3] <= max_new_dollar
    ELSE IF max_new_dollar = -1 THEN B_expand[i][2] <= max_camp
    ELSE B_expand[i][2] <= max_camp /\ B_expand[i][3] <= max_new_dollar

CampWalked == Evaluated /\ ~(max_camp = -1 /\ max_new_dollar = -1)

\* C16: in the camp-pair walk the accepted entries are exactly those whose
\* cumulative camp cost and cumulative new-dollar cost are both within
\* their caps, an unlimited cap bypassing its own test only: per material
\* Acquired counts the entries within the caps, GoldFallback and
\* Unavailable together count the others, and the frontier is the last
\* entry within the caps.
C16_CampPairAcceptance ==
    CampWalked =>
        LET within == {i \in DOMAIN B_expand : WithinCampCaps(i)}
            of(S, n) == R(Cardinality({i \in S : B_expand[i][1] = n}))
        IN  /\ \A n \in DOMAIN material_data.B1 :
                   /\ material_data.B1[n] = of(within, n)
                   /\ RAdd(material_data.B2[n], material_data.B3[n])
                          = of(DOMAIN B_expand \ within, n)
            /\ within # {} =>
                   material_data.temp_B
                       = B_expand[CHOOSE i \in within : \A j \in within : j <= i]
            /\ within = {} => material_data.temp_B = NoTempB

\* camp cap unlimited, new-dollar cap 2: Silk (2, 1) is accepted, the two
\* Hemp entries (5, 3) and (8, 5) are not
C16_Witness ==
    /\ CampWalked
    /\ max_camp = -1
    /\ max_new_dollar = 2
    /\ Len(B_expand) = 3
    /\ material_data.B1["Silk"] = R(1)
    /\ material_data.B1["Hemp"] = R(0)
    /\ material_data.B2["Hemp"] = R(2)

\* the leaves of a resolved tree
RECURSIVE Leaves(_)
Leaves(node) ==
    IF node.is_recipe
    THEN UNION {Leaves(node.children[i]) : i \in DOMAIN node.children}
    ELSE {node}

\* the override if override mode is on and the name has one, else the
\* catalog gold price
EffectivePrice(n) ==
    IF use_custom_prices /\ n \in DOMAIN temp_prices
    THEN temp_prices[n]
    ELSE items[n].price

\* override sets to compare with
OverrideSets == UNION {[S -> {3, 7}] : S \in SUBSET {"Wood", "Ore", "Fur"}}

\* C17: a leaf of a resolved tree is priced with the override iff override
\* mode is on and an override exists for its name, else with the catalog
\* gold price; with override mode off the result of a resolution is the
\* same for every content of the override set.
C17_OverridePrice ==
    /\ IsNode(recipe_data) =>
           \A leaf \in Leaves(recipe_data) :
               /\ leaf.price = R(EffectivePrice(leaf.name))
               /\ leaf.total_cost = RMul(R(EffectivePrice(leaf.name)), leaf.quantity)
    /\ (~use_custom_prices /\ item_var # "") =>
           \A tp \in OverrideSets :
               recipe_data = get_recipe_tree([DM EXCEPT !.temp_prices = tp],
                                             item_var, R(quantity_arg), 0)

\* Plank with override mode on and Wood overridden to 7: 2 * 7
C17_Witness ==
    /\ use_custom_prices
    /\ "Wood" \in DOMAIN temp_prices
    /\ temp_prices["Wood"] = 7
    /\ items["Wood"].price = 10
    /\ IsNode(recipe_data)
    /\ recipe_data.name = "Plank"
    /\ recipe_data.total_cost = R(14)

\* 1e-4
Epsilon == <<1, ThresholdDen>>

\* C18: round_quantity(q), q >= 0, is the nearest integer when q is
\* strictly within 1e-4 of it and ceil(q) otherwise; 2.99995 -> 3,
\* 2.5001 -> 3, 5.00003 -> 5, 2.5 -> 3.
C18_RoundQuantity ==
    round_result # -1 =>
        LET q == round_arg
            below == Floor(q)
            above == below + 1
        IN  /\ RLt(RSub(q, R(below)), Epsilon) => round_result = below
            /\ RLt(RSub(R(above), q), Epsilon) => round_result = above
            /\ (~RLt(RSub(q, R(below)), Epsilon) /\ ~RLt(RSub(R(above), q), Epsilon))
                   => (round_result = Ceil(q) /\ round_result = above)
            /\ q = <<59999, 20000>> => round_result = 3
            /\ q = <<25001, 10000>> => round_result = 3
            /\ q = <<500003, 100000>> => round_result = 5
            /\ q = <<5, 2>> => round_result = 3

\* round_quantity(5.00003) returned 5
C18_Witness ==
    /\ round_arg = <<500003, 100000>>
    /\ round_result = 5

\* C19: a material of the gold-only list with a gold price is entirely in
\* GoldFallback and adds quantity * gold price to the gold-only total; one
\* with no price at all is entirely in Unavailable and adds nothing;
\* whatever the three caps.
C19_GoldOnlyChannel ==
    Evaluated =>
        LET priced == {i \in DOMAIN C : Price(C[i][1]) # -1}
            cost == [i \in DOMAIN C |-> RMul(C[i][2], R(Price(C[i][1])))]
        IN  /\ \A i \in DOMAIN C :
                   LET n == C[i][1]
                   IN  /\ C[i][2] = DictGet(total_materials, n)
                       /\ i \in priced =>
                              /\ material_data.C2[n] = C[i][2]
                              /\ material_data.C3[n] = R(0)
                       /\ i \notin priced =>
                              /\ material_data.C2[n] = R(0)
                              /\ material_data.C3[n] = C[i][2]
            /\ material_data.temp_C = RSum(priced, cost)

\* Table with a ticket cap of 0: the 5 Wood at 10 each are bought with gold
C19_Witness ==
    /\ Evaluated
    /\ max_tickets = 0
    /\ Len(C) = 1
    /\ C[1][1] = "Wood"
    /\ material_data.C2["Wood"] = R(5)
    /\ material_data.temp_C = R(50)

BothCurves == has_plot_data /\ A_expand # <<>> /\ B_expand # <<>>

\* C20: with both curves non-empty the surface has one cell for every pair
\* of a ticket-curve position i and a camp-curve position j, at the ticket
\* cost of i and the camp cost of j, and its value is the remaining gold
\* cost of ticket entry i plus that of camp entry j, the gold-only total
\* left out.
C20_Surface ==
    BothCurves =>
        /\ DOMAIN plot_data.Z = DOMAIN B_expand
        /\ DOMAIN plot_data.X = DOMAIN B_expand
        /\ DOMAIN plot_data.Y = DOMAIN B_expand
        /\ \A j \in DOMAIN B_expand :
               /\ DOMAIN plot_data.Z[j] = DOMAIN A_expand
               /\ DOMAIN plot_data.X[j] = DOMAIN A_expand
               /\ DOMAIN plot_data.Y[j] = DOMAIN A_expand
               /\ \A i \in DOMAIN A_expand :
                      /\ plot_data.X[j][i] = A_expand[i][2]
                      /\ plot_data.Y[j][i] = B_expand[j][2]
                      /\ plot_data.Z[j][i] = RAdd(A_expand[i][3], B_expand[j][4])

\* Pelt twice and a Plank: one Fur entry, one Hemp entry, and 2 Wood for
\* 20 gold that is in no cell
C20_Witness ==
    /\ BothCurves
    /\ Evaluated
    /\ Len(A_expand) = 1
    /\ Len(B_expand) = 1
    /\ material_data.temp_C = R(20)
    /\ plot_data.Z = << <<B_expand[1][4]>> >>
    /\ plot_data.Z[1][1] = R(0)

\* the rows of the three channel lists, as a set of <<material, quantity>>
ClassifiedDemand ==
    {<<A[i][1], A[i][2]>> : i \in DOMAIN A}
        \cup {<<B[i][1], B[i][2]>> : i \in DOMAIN B}
        \cup {<<C[i][1], C[i][2]>> : i \in DOMAIN C}

\* C21: the stored aggregated demand, channel lists, curves and buckets
\* belong to one computation: the channel lists classify exactly the stored
\* demand, the curves are those of the channel lists, and the buckets are
\* over the materials of the channel lists, also after a computation that
\* failed.
C21_NoPartialResult ==
    /\ ClassifiedDemand = {total_materials[i] : i \in DOMAIN total_materials}
    /\ A_expand = expand_A(A)
    /\ B_expand = expand_B(B)
    /\ HasData(material_data) =>
           /\ DOMAIN material_data.A1 = {A[i][1] : i \in DOMAIN A}
           /\ DOMAIN material_data.B1 = {B[i][1] : i \in DOMAIN B}
           /\ DOMAIN material_data.C2 = {C[i][1] : i \in DOMAIN C}

\* C28: on a built curve the remaining gold cost is never negative and is
\* exactly zero after the last entry, fractional demands included.
C28_RemainingGoldToZero ==
    /\ \A i \in DOMAIN A_expand : RLe(R(0), A_expand[i][3])
    /\ \A i \in DOMAIN B_expand : RLe(R(0), B_expand[i][4])
    /\ A_expand # <<>> => Last(A_expand)[3] = R(0)
    /\ B_expand # <<>> => Last(B_expand)[4] = R(0)

\* the row of a channel list that names material n
RowOf(list, n) == list[CHOOSE i \in DOMAIN list : list[i][1] = n]

\* the number of entries of a curve that name material n
EntriesOf(curve, n) == Cardinality({k \in DOMAIN curve : curve[k][1] = n})

\* C26: a curve has exactly roundQuantity(quantity) entries for each
\* material of its channel list, so its length is the sum of the rounded
\* quantities, and the cumulative channel cost (ticket; camp and new-dollar)
\* of an entry is that of the entry before it, 0 before the first, plus the
\* per-unit channel price of the entry's material.
C26_CurveExpansion ==
    LET unitsA == [i \in DOMAIN A |-> R(round_quantity(A[i][2]))]
        unitsB == [i \in DOMAIN B |-> R(round_quantity(B[i][2]))]
        before(curve, k, c) == IF k = 1 THEN 0 ELSE curve[k - 1][c]
    IN  /\ \A i \in DOMAIN A :
               EntriesOf(A_expand, A[i][1]) = round_quantity(A[i][2])
        /\ \A i \in DOMAIN B :
               EntriesOf(B_expand, B[i][1]) = round_quantity(B[i][2])
        /\ R(Len(A_expand)) = RSum(DOMAIN A, unitsA)
        /\ R(Len(B_expand)) = RSum(DOMAIN B, unitsB)
        /\ \A k \in DOMAIN A_expand :
               /\ RowsOf(A, A_expand[k][1]) # {}
               /\ A_expand[k][2]
                      = before(A_expand, k, 2) + RowOf(A, A_expand[k][1])[4]
        /\ \A k \in DOMAIN B_expand :
               /\ RowsOf(B, B_expand[k][1]) # {}
               /\ B_expand[k][2]
                      = before(B_expand, k, 2) + RowOf(B, B_expand[k][1])[4][1]
               /\ B_expand[k][3]
                      = before(B_expand, k, 3) + RowOf(B, B_expand[k][1])[4][2]

\* 1.5 Ore: two entries; 0.5 Silk and 1.5 Hemp: one and two entries
C26_Witness ==
    /\ Len(A) = 1
    /\ A[1][2] = <<3, 2>>
    /\ Len(A_expand) = 2
    /\ Len(B) = 2
    /\ B[1][2] = <<1, 2>>
    /\ B[2][2] = <<3, 2>>
    /\ Len(B_expand) = 3
    /\ B_expand[3][2] = 8
    /\ B_expand[3][3] = 5

\* the buckets Acquired (acq) and GoldFallback, Unavailable (gold, none) of
\* a channel and its frontier are those of a walk that accepted the first
\* k entries of the curve, k the number of units acquired, and no other
WalkedPrefix(curve, acq, gold, none, frontier, noFrontier) ==
    LET k == RSum(DOMAIN acq, acq)[1]
        prefix == {i \in DOMAIN curve : i <= k}
        count(S, n) == R(Cardinality({i \in S : curve[i][1] = n}))
    IN  /\ k <= Len(curve)
        /\ frontier = IF k = 0 THEN noFrontier ELSE curve[k]
        /\ \A n \in DOMAIN acq :
               /\ acq[n] = count(prefix, n)
               /\ RAdd(gold[n], none[n]) = count(DOMAIN curve \ prefix, n)

\* C27: with non-negative channel prices and a finite cap the walk accepts
\* exactly a prefix of the curve, and what is spent at the frontier is
\* within the cap: tickets within the ticket cap; camp contribution and
\* new dollars within whichever of their caps is finite.
C27_PrefixWithinCap ==
    (Evaluated /\ NonNegativePrices) =>
        /\ max_tickets # -1 =>
               /\ WalkedPrefix(A_expand, material_data.A1, material_data.A2,
                                material_data.A3, material_data.temp_A, NoTempA)
               /\ material_data.temp_A[2] <= max_tickets
        /\ (max_camp # -1 \/ max_new_dollar # -1) =>
               /\ WalkedPrefix(B_expand, material_data.B1, material_data.B2,
                                material_data.B3, material_data.temp_B, NoTempB)
               /\ max_camp # -1 => material_data.temp_B[2] <= max_camp
               /\ max_new_dollar # -1 => material_data.temp_B[3] <= max_new_dollar

\* ticket cap 5 on a curve of two Ore entries (5, 10): the first accepted;
\* camp cap 5 on Silk (2, 1), Hemp (5, 3), Hemp (8, 5): two accepted
C27_Witness ==
    /\ Evaluated
    /\ max_tickets = 5
    /\ max_camp = 5
    /\ max_new_dollar = -1
    /\ Len(A_expand) = 2
    /\ material_data.temp_A = A_expand[1]
    /\ Len(B_expand) = 3
    /\ material_data.temp_B = B_expand[2]

\* the unit entries of each material are next to each other
Contiguous(curve) ==
    \A i, j, k \in DOMAIN curve :
        (i < j /\ j < k /\ curve[i][1] = curve[k][1]) => curve[j][1] = curve[i][1]

\* channel price (the camp contribution in the camp channel) and gold price
\* of the material of a curve entry
TicketPriceOf(k) == RowOf(A, A_expand[k][1])[4]
CampPriceOf(k) == RowOf(B, B_expand[k][1])[4][1]
GoldPriceOfA(k) == RowOf(A, A_expand[k][1])[5]
GoldPriceOfB(k) == RowOf(B, B_expand[k][1])[5]

\* C24: in a curve the unit entries of a material are contiguous, and the
\* materials with a gold price come in non-decreasing order of their
\* efficiency ratio, ticketPrice/goldPrice in the ticket curve and
\* campContribution/goldPrice in the camp curve.
C24_EfficiencyOrder ==
    /\ Contiguous(A_expand)
    /\ Contiguous(B_expand)
    /\ \A i, j \in DOMAIN A_expand :
           (i < j /\ GoldPriceOfA(i) # -1 /\ GoldPriceOfA(j) # -1) =>
               RLe(RDiv(R(TicketPriceOf(i)), R(GoldPriceOfA(i))),
                   RDiv(R(TicketPriceOf(j)), R(GoldPriceOfA(j))))
    /\ \A i, j \in DOMAIN B_expand :
           (i < j /\ GoldPriceOfB(i) # -1 /\ GoldPriceOfB(j) # -1) =>
               RLe(RDiv(R(CampPriceOf(i)), R(GoldPriceOfB(i))),
                   RDiv(R(CampPriceOf(j)), R(GoldPriceOfB(j))))

\* Ore (5/8) is aggregated before Coal (1/2) and comes after it in the
\* curve; Hemp (3/4) is aggregated before Flax (4/8) and comes after it
C24_Witness ==
    /\ Len(A_expand) = 4
    /\ A_expand[3][1] = "Coal"
    /\ A_expand[4][1] = "Ore"
    /\ total_materials[1][1] = "Ore"
    /\ Len(B_expand) = 2
    /\ B_expand[1][1] = "Flax"
    /\ B_expand[2][1] = "Hemp"

\* C25: the materials of a channel with no gold price are in its curve, and
\* among themselves they come in ascending order of channel price.
C25_UnpricedByChannelPrice ==
    /\ \A i \in DOMAIN A : EntriesOf(A_expand, A[i][1]) >= 1
    /\ \A i \in DOMAIN B : EntriesOf(B_expand, B[i][1]) >= 1
    /\ \A i, j \in DOMAIN A_expand :
           (i < j /\ GoldPriceOfA(i) = -1 /\ GoldPriceOfA(j) = -1) =>
               TicketPriceOf(i) <= TicketPriceOf(j)
    /\ \A i, j \in DOMAIN B_expand :
           (i < j /\ GoldPriceOfB(i) = -1 /\ GoldPriceOfB(j) = -1) =>
               CampPriceOf(i) <= CampPriceOf(j)
\* C30: editing an item under a name that is not yet in the catalog ends with
\* the item stored under the new name with the edited fields and nothing
\* under the old name; no edit step removes an item without storing it
C30_RenameKeepsItem ==
    [][\A e \in EditChoices :
          (/\ AddOrUpdateItem(e[1], e[2], e[3])
           /\ e[1] # "" /\ e[2] # "" /\ e[2] # e[1]
           /\ e[2] \notin DOMAIN items)
          => (/\ e[2] \in DOMAIN items'
              /\ items'[e[2]] = e[3]
              /\ e[1] \notin DOMAIN items')]_vars

\* C22: resolving a product and computing a basket (aggregating,
\* classifying, building the curves, evaluating the caps) leave every item,
\* every recipe and the override prices as they were
C22_CatalogUntouched ==
    [][((\E n \in EditQueryNames : UpdateInfo(n)) \/ CalculateMaterials)
          => UNCHANGED <<items, recipes, temp_prices, use_custom_prices>>]_vars

\* an edited catalog (Ore at gold price 4) that a resolution and a basket
\* computation have both read
C22_Witness ==
    /\ "Ore" \in DOMAIN items /\ items["Ore"].price = 4
    /\ IsNode(recipe_data)
    /\ fresh /\ raised = "" /\ HasData(material_data)
    /\ base_materials_data = items

\* C29: whenever a surface is stored, it is the surface of the stored
\* ticket and camp curves
C29_SurfaceNeverStale ==
    has_plot_data => plot_data = create_plot_data(A_expand, B_expand)

\* a computation after a catalog edit that changed the curve values but
\* not their lengths
C29_Witness ==
    /\ has_plot_data /\ fresh /\ raised = ""
    /\ "Ore" \in DOMAIN items /\ items["Ore"].price = 4
    /\ A_expand # <<>>
    /\ \E i \in DOMAIN A_expand : A_expand[i][1] = "Ore"

\* C23: a computation that only re-evaluates new caps (demand and
\* classification as before) leaves the curves as they were and does not
\* run the curve expansion
C23_CurvesNotRebuilt ==
    [][(/\ CalculateMaterials
        /\ raised = "" /\ HasData(material_data)
        /\ A_expand # <<>> /\ B_expand # <<>>
        /\ raised' = ""
        /\ total_materials' = total_materials
        /\ A' = A /\ B' = B /\ C' = C)
          => (/\ A_expand' = A_expand
              /\ B_expand' = B_expand
              /\ ~expanded')]_vars

====
